---- MODULE Spec2Model ----
(***************************************************************************)
(* Cinema ticket booking (src/src/cinema-ticket-booking/main.py).          *)
(*                                                                         *)
(* Durable state is the two SQLite tables: Seat(seat_id, price, taken) in  *)
(* cinema.db and Card(number, cvc, balance) in banking.db.  A purchaser is *)
(* one run of the program: it reads its inputs, builds User, Seat and Card *)
(* and calls User.buy.  Every accessor opens its own connection, so every  *)
(* SQL statement is a transaction of its own and is one step of the model; *)
(* steps of different purchasers interleave freely.                        *)
(*                                                                         *)
(* A storage fault is an exception raised by connect/execute/commit inside *)
(* an accessor's try block: the statement has no durable effect and the    *)
(* accessor's except branch returns its default.                           *)
(***************************************************************************)
EXTENDS Integers, FiniteSets, TLC

\* ------------------------------------------------------------------ bounds
MaxBalance  == 2    \* initial balances are 0..MaxBalance
MaxAttempts == 2    \* program runs of a purchaser that runs alone

Users       == {"u1", "u2"}
SeatIds     == {1, 2}                      \* seat_id values with a Seat row
NoSeat      == 0                           \* a seat id with no row
SeatInputs  == SeatIds \cup {NoSeat}
Prices      == {1, 2}                      \* Seat.price values (positive amounts)
CardNumbers == {1, 2}
GoodCvc     == "cvc"
BadCvc      == "bad"
CardRows    == CardNumbers \X {GoodCvc}    \* (number, cvc) pairs with a Card row
CardInputs  == CardRows \cup {<<1, BadCvc>>}  \* and a pair that matches no row
TicketIds   == {"idA", "idB"}              \* the random 8-letter identifiers

Success    == "Purchase Successful!"
CardFail   == "There was a problem with your card!"
SeatFail   == "Seat is taken!"
Raised     == "exception"                 \* buy did not return: to_pdf raised
NoResult   == "none"
FailOutcomes == {CardFail, SeatFail}

NoValue  == 0 - 1                         \* no value yet
NoCard   == <<0, BadCvc>>
NoTicket == [id |-> "none", price |-> NoValue, seat_number |-> NoValue, user |-> "none"]
NoReceipt == [price |-> NoValue, seat_number |-> NoValue]

VARIABLES
    seatPrice,     \* cinema.db  Seat.price   by seat_id
    seatTaken,     \* cinema.db  Seat.taken   by seat_id
    cardBalance,   \* banking.db Card.balance by (number, cvc)
    files,         \* ticket_<id>.pdf files written
    users,         \* the purchasers that run
    mayFault,      \* whether storage accesses may raise
    pc,            \* position of each purchaser
    seat,          \* Seat.seat_id of the attempt
    card,          \* (Card.number, Card.cvc) of the attempt
    price,         \* validate's argument price
    balance,       \* validate's local balance
    ticket,        \* buy's local ticket
    result,        \* what buy returned
    attempts,      \* program runs started by each purchaser
    \* history, for stating the properties
    taken0,        \* Seat.taken when the attempt started   (kept for a purchaser
    bal0,          \* Card.balance when the attempt started  that runs alone: with
    files0,        \* files when the attempt started         two, "before" is not one state)
    charged,       \* amount validate debited in the attempt, or NoValue
    occupied,      \* whether the attempt's occupy ran its UPDATE
    issued,        \* Price and Seat No on the receipt the attempt rendered
    prev,          \* (seat, card) of the purchaser's previous attempt if it succeeded
    initBalance,   \* Card.balance initially
    totalCharged   \* per card, sum of the prices of validate calls that returned True

db    == <<seatPrice, seatTaken, cardBalance, files>>
conf  == <<users, mayFault, initBalance>>
local == <<pc, seat, card, price, balance, ticket, result, attempts>>
hist  == <<taken0, bal0, files0, charged, occupied, issued, prev, totalCharged>>
vars  == <<db, conf, local, hist>>

\* Purchaser p is the only one that runs.
Alone(p) == users = {p}

\* Program runs of purchaser p: MaxAttempts one after the other when p runs
\* alone; concurrent purchasers race one run each.
Runs(p) == IF Alone(p) THEN MaxAttempts ELSE 1

\* ------------------------------------------------------- accessor results
\* Seat.get_price: the row's price; 0 when the row is missing or on a fault.
get_price(s, fault) ==
    IF fault \/ s \notin DOMAIN seatPrice THEN 0 ELSE seatPrice[s]

\* is_free without the comparison of taken with 0.
is_free_ignores_taken(s, fault) ==
    IF fault \/ s \notin DOMAIN seatTaken THEN FALSE ELSE TRUE

\* Seat.is_free: taken = 0; False when the row is missing or on a fault.
is_free(s, fault) ==
    IF fault \/ s \notin DOMAIN seatTaken THEN FALSE ELSE seatTaken[s] = 0

\* validate without the balance check.
sufficient_always(bal, pr) == TRUE

\* Card.validate line 170: balance >= price
sufficient(bal, pr) == bal >= pr

\* validate writing one unit too little.
debit_off_by_one(bal, pr) == bal - pr - 1

\* Card.validate line 173: the balance the UPDATE writes
debit(bal, pr) == bal - pr

\* occupy flipping the flag instead of setting it.
occupy_toggles(t) == 1 - t

\* Seat.occupy line 127: the value the UPDATE writes to taken
occupy_value(t) == 1

\* ------------------------------------------------------------------- Init
InitOf(us, mf) ==
    /\ seatPrice \in [SeatIds -> Prices]
    /\ seatTaken \in [SeatIds -> {0, 1}]
    /\ cardBalance \in [CardRows -> 0..MaxBalance]
    /\ files = {}
    /\ users = us
    /\ mayFault = mf
    /\ pc = [p \in Users |-> "main"]
    /\ seat = [p \in Users |-> NoSeat]
    /\ card = [p \in Users |-> NoCard]
    /\ price = [p \in Users |-> NoValue]
    /\ balance = [p \in Users |-> NoValue]
    /\ ticket = [p \in Users |-> NoTicket]
    /\ result = [p \in Users |-> NoResult]
    /\ attempts = [p \in Users |-> 0]
    /\ taken0 = [p \in Users |-> seatTaken]
    /\ bal0 = [p \in Users |-> cardBalance]
    /\ files0 = [p \in Users |-> {}]
    /\ charged = [p \in Users |-> NoValue]
    /\ occupied = [p \in Users |-> FALSE]
    /\ issued = [p \in Users |-> NoReceipt]
    /\ prev = [p \in Users |-> <<NoSeat, NoCard>>]
    /\ initBalance = cardBalance
    /\ totalCharged = [k \in CardRows |-> 0]

\* ---------------------------------------------------------------- actions
\* buy returns r: the program prints it and exits.
Return(p, r) ==
    /\ pc' = [pc EXCEPT ![p] = "exit"]
    /\ result' = [result EXCEPT ![p] = r]
    /\ price' = [price EXCEPT ![p] = NoValue]
    /\ balance' = [balance EXCEPT ![p] = NoValue]
    /\ ticket' = [ticket EXCEPT ![p] = NoTicket]

Goto(p, l) ==
    /\ pc' = [pc EXCEPT ![p] = l]
    /\ UNCHANGED result

\* __main__ lines 242-254: read the inputs, build the objects, call buy.
main(p, s, c) ==
    /\ pc[p] \in {"main", "exit"}
    /\ attempts[p] < Runs(p)
    /\ attempts' = [attempts EXCEPT ![p] = @ + 1]
    /\ seat' = [seat EXCEPT ![p] = s]
    /\ card' = [card EXCEPT ![p] = c]
    /\ pc' = [pc EXCEPT ![p] = "buy_is_free"]
    /\ result' = [result EXCEPT ![p] = NoResult]
    /\ taken0' = [taken0 EXCEPT ![p] = IF Alone(p) THEN seatTaken ELSE @]
    /\ bal0' = [bal0 EXCEPT ![p] = IF Alone(p) THEN cardBalance ELSE @]
    /\ files0' = [files0 EXCEPT ![p] = IF Alone(p) THEN files ELSE @]
    /\ charged' = [charged EXCEPT ![p] = NoValue]
    /\ occupied' = [occupied EXCEPT ![p] = FALSE]
    /\ issued' = [issued EXCEPT ![p] = NoReceipt]
    /\ prev' = [prev EXCEPT ![p] = IF result[p] = Success THEN <<seat[p], card[p]>>
                                   ELSE <<NoSeat, NoCard>>]
    /\ UNCHANGED <<db, conf, price, balance, ticket, totalCharged>>

\* buy line 32: if seat.is_free() ... else "Seat is taken!"
buy_is_free(p, fault) ==
    /\ pc[p] = "buy_is_free"
    /\ IF is_free(seat[p], fault)
       THEN Goto(p, "buy_get_price") /\ UNCHANGED <<price, balance, ticket>>
       ELSE Return(p, SeatFail)
    /\ UNCHANGED <<db, conf, seat, card, attempts, hist>>

\* buy line 33: the argument price=seat.get_price()
buy_get_price(p, fault) ==
    /\ pc[p] = "buy_get_price"
    /\ price' = [price EXCEPT ![p] = get_price(seat[p], fault)]
    /\ Goto(p, "validate_select")
    /\ UNCHANGED <<db, conf, seat, card, balance, ticket, attempts, hist>>

\* Card.validate lines 160-170 and 177-185: SELECT balance, compare.
validate_select(p, fault) ==
    /\ pc[p] = "validate_select"
    /\ IF ~fault /\ card[p] \in DOMAIN cardBalance
             /\ sufficient(cardBalance[card[p]], price[p])
       THEN /\ balance' = [balance EXCEPT ![p] = cardBalance[card[p]]]
            /\ Goto(p, "validate_update")
            /\ UNCHANGED <<price, ticket>>
       ELSE Return(p, CardFail)
    /\ UNCHANGED <<db, conf, seat, card, attempts, hist>>

\* The UPDATE is committed and the call still reports a failure.
validate_update_commits_on_fault(p, fault) ==
    /\ pc[p] = "validate_update"
    /\ cardBalance' = [cardBalance EXCEPT ![card[p]] = debit(balance[p], price[p])]
    /\ IF fault
       THEN /\ Return(p, CardFail)
            /\ UNCHANGED <<charged, totalCharged>>
       ELSE /\ charged' = [charged EXCEPT ![p] = price[p]]
            /\ totalCharged' = [totalCharged EXCEPT ![card[p]] = @ + price[p]]
            /\ Goto(p, "occupy_is_free")
            /\ UNCHANGED <<price, balance, ticket>>
    /\ UNCHANGED <<seatPrice, seatTaken, files, conf, seat, card, attempts,
                   taken0, bal0, files0, occupied, issued, prev>>

\* Card.validate lines 171-176: UPDATE balance, commit, return True.
validate_update(p, fault) ==
    /\ pc[p] = "validate_update"
    /\ IF fault
       THEN /\ Return(p, CardFail)
            /\ UNCHANGED <<cardBalance, charged, totalCharged>>
       ELSE /\ cardBalance' = [cardBalance EXCEPT ![card[p]] = debit(balance[p], price[p])]
            /\ charged' = [charged EXCEPT ![p] = price[p]]
            /\ totalCharged' = [totalCharged EXCEPT ![card[p]] = @ + price[p]]
            /\ Goto(p, "occupy_is_free")
            /\ UNCHANGED <<price, balance, ticket>>
    /\ UNCHANGED <<seatPrice, seatTaken, files, conf, seat, card, attempts,
                   taken0, bal0, files0, occupied, issued, prev>>

\* Seat.occupy line 122: if self.is_free()
occupy_is_free(p, fault) ==
    /\ pc[p] = "occupy_is_free"
    /\ IF is_free(seat[p], fault)
       THEN Goto(p, "occupy_update")
       ELSE Goto(p, "ticket_get_price")
    /\ UNCHANGED <<db, conf, seat, card, price, balance, ticket, attempts, hist>>

\* Seat.occupy lines 123-131: UPDATE taken, commit.
occupy_update(p, fault) ==
    /\ pc[p] = "occupy_update"
    /\ IF fault
       THEN UNCHANGED <<seatTaken, occupied>>
       ELSE /\ seatTaken' = [seatTaken EXCEPT ![seat[p]] = occupy_value(@)]
            /\ occupied' = [occupied EXCEPT ![p] = TRUE]
    /\ Goto(p, "ticket_get_price")
    /\ UNCHANGED <<seatPrice, cardBalance, files, conf, seat, card, price, balance,
                   ticket, attempts, taken0, bal0, files0, charged, issued, prev, totalCharged>>

\* buy line 35: Ticket(user=self, price=seat.get_price(), seat_number=seat.seat_id)
ticket_get_price(p, fault, id) ==
    /\ pc[p] = "ticket_get_price"
    /\ ticket' = [ticket EXCEPT ![p] = [id |-> id, price |-> get_price(seat[p], fault),
                                        seat_number |-> seat[p], user |-> p]]
    /\ Goto(p, "to_pdf")
    /\ UNCHANGED <<db, conf, seat, card, price, balance, attempts, hist>>

\* buy lines 36-37: ticket.to_pdf(); return "Purchase Successful!".
\* to_pdf has no handler: when pdf.output raises, buy raises.
to_pdf(p, fault) ==
    /\ pc[p] = "to_pdf"
    /\ IF fault
       THEN Return(p, Raised) /\ UNCHANGED <<files, issued>>
       ELSE /\ Return(p, Success)
            /\ files' = files \cup {ticket[p].id}
            /\ issued' = [issued EXCEPT ![p] = [price |-> ticket[p].price,
                                                seat_number |-> ticket[p].seat_number]]
    /\ UNCHANGED <<seatPrice, seatTaken, cardBalance, conf, seat, card, attempts,
                   taken0, bal0, files0, charged, occupied, prev, totalCharged>>

\* A storage access of a running purchaser: fault = TRUE is the access raising.
Access(p, fault) == p \in users /\ (fault => mayFault)

Next ==
    \E p \in Users :
        \/ \E s \in SeatInputs, c \in CardInputs : p \in users /\ main(p, s, c)
        \/ \E fault \in BOOLEAN :
              \/ Access(p, fault) /\ buy_is_free(p, fault)
              \/ Access(p, fault) /\ buy_get_price(p, fault)
              \/ Access(p, fault) /\ validate_select(p, fault)
              \/ Access(p, fault) /\ validate_update(p, fault)
              \/ Access(p, fault) /\ occupy_is_free(p, fault)
              \/ Access(p, fault) /\ occupy_update(p, fault)
              \/ Access(p, fault) /\ to_pdf(p, fault)
              \/ \E id \in TicketIds : Access(p, fault) /\ ticket_get_price(p, fault, id)

\* Two concurrent purchasers, storage faults possible.
Init == InitOf(Users, TRUE)
Spec == Init /\ [][Next]_vars

\* Two concurrent purchasers, no storage faults.
InitConc == InitOf(Users, FALSE)
SpecConc == InitConc /\ [][Next]_vars

\* A single purchaser, storage faults possible.
InitFault == InitOf({"u1"}, TRUE)
SpecFault == InitFault /\ [][Next]_vars

\* A single purchaser, no storage faults.
InitSeq == InitOf({"u1"}, FALSE)
SpecSeq == InitSeq /\ [][Next]_vars

\* ------------------------------------------------------------- properties
Exited(p)  == pc[p] = "exit"
HasSeat(p) == seat[p] \in SeatIds
HasCard(p) == card[p] \in CardRows

\* C1: a purchaser running alone, without faults: a free seat of price pr
\* bought with an existing card of balance >= pr gives "Purchase Successful!",
\* the card's balance is the old one minus pr (strictly less), no other balance
\* changes, and the seat's taken flag goes from 0 to 1 by one UPDATE; the same
\* purchase repeated gives "Seat is taken!" and changes no balance and no flag.
C1_PurchaseThenRepeat ==
    \A p \in users : Exited(p) =>
        /\ (/\ HasSeat(p) /\ taken0[p][seat[p]] = 0
            /\ HasCard(p) /\ bal0[p][card[p]] >= seatPrice[seat[p]])
           => /\ result[p] = Success
              /\ cardBalance = [bal0[p] EXCEPT ![card[p]] = @ - seatPrice[seat[p]]]
              /\ cardBalance[card[p]] < bal0[p][card[p]]
              /\ seatTaken = [taken0[p] EXCEPT ![seat[p]] = 1]
              /\ occupied[p]
        /\ (HasSeat(p) /\ prev[p] = <<seat[p], card[p]>>)
           => /\ result[p] = SeatFail
              /\ cardBalance = bal0[p]
              /\ seatTaken = taken0[p]
              /\ ~occupied[p]

\* C1 witness: a successful purchase has been repeated.
C1_Witness ==
    \E p \in users :
        /\ Exited(p) /\ HasSeat(p) /\ prev[p] = <<seat[p], card[p]>>
        /\ result[p] = SeatFail
        /\ cardBalance[card[p]] < initBalance[card[p]]

\* C2: an attempt on a seat whose taken flag is 1, with any card, never reaches
\* Card.validate, returns "Seat is taken!" and leaves every balance as it was.
C2_TakenSeatRefused ==
    \A p \in users : (HasSeat(p) /\ taken0[p][seat[p]] = 1) =>
        /\ pc[p] \in {"buy_is_free", "exit"}
        /\ cardBalance = bal0[p]
        /\ charged[p] = NoValue
        /\ Exited(p) => result[p] = SeatFail

\* C2 witness: a taken seat was refused to a card that could have paid for it.
C2_Witness ==
    \E p \in users :
        /\ Exited(p) /\ HasSeat(p) /\ taken0[p][seat[p]] = 1
        /\ HasCard(p) /\ cardBalance[card[p]] >= seatPrice[seat[p]]
        /\ result[p] = SeatFail

C4_OccupancyMonotone ==
    [][/\ \A s \in SeatIds : seatTaken[s] = 1 => seatTaken'[s] = 1
       /\ seatTaken' # seatTaken =>
            \E p \in users :
                /\ pc[p] = "occupy_update" /\ pc'[p] = "ticket_get_price"
                /\ seatTaken' = [seatTaken EXCEPT ![seat[p]] = 1]]_vars

\* C4 witness: a seat one purchaser occupied was later asked for by another.
C4_Witness ==
    \E p, q \in users :
        /\ p # q /\ Exited(p) /\ Exited(q)
        /\ occupied[p] /\ seat[q] = seat[p]
        /\ seatTaken[seat[p]] = 1
        /\ result[q] = SeatFail

\* C5: no balance is ever negative, and a step that changes a balance is the
\* UPDATE of some purchaser's Card.validate, writing the balance that call
\* read minus its price, with the price at most the balance read.
C5_BalanceNonNegative ==
    /\ [](\A k \in CardRows : cardBalance[k] >= 0)
    /\ [][\A k \in CardRows : cardBalance'[k] # cardBalance[k] =>
            \E p \in users :
                /\ pc[p] = "validate_update" /\ card[p] = k
                /\ price[p] <= balance[p]
                /\ cardBalance'[k] = balance[p] - price[p]]_vars

\* C5 witness: a debit has emptied a card.
C5_Witness ==
    \E p \in users :
        /\ charged[p] > 0
        /\ cardBalance[card[p]] = 0

\* C6: an attempt that returns a FAIL outcome has changed no taken flag and no
\* balance and written no receipt; an attempt on a seat id with no row returns
\* "Seat is taken!"; an attempt with a (number, cvc) that matches no row never
\* gets past validate's SELECT and returns a FAIL outcome.
C6_FailChangesNothing ==
    \A p \in users :
        /\ (Exited(p) /\ result[p] \in FailOutcomes)
           => /\ seatTaken = taken0[p]
              /\ cardBalance = bal0[p]
              /\ files = files0[p]
              /\ issued[p] = NoReceipt
        /\ (Exited(p) /\ ~HasSeat(p)) => result[p] = SeatFail
        /\ (pc[p] # "main" /\ ~HasCard(p))
           => /\ pc[p] \in {"buy_is_free", "buy_get_price", "validate_select", "exit"}
              /\ Exited(p) => result[p] \in FailOutcomes

\* C6 witness: a storage access of validate raised, and the attempt failed with
\* the card problem outcome on a free seat the card could pay for.
C6_Witness ==
    \E p \in users :
        /\ Exited(p) /\ result[p] = CardFail
        /\ HasSeat(p) /\ HasCard(p)
        /\ taken0[p][seat[p]] = 0
        /\ bal0[p][card[p]] >= seatPrice[seat[p]]

\* C7: check and debit are atomic: no debit is lost, that is every balance is
\* the initial one minus the prices of the validate calls that returned True.
C7_NoLostDebit ==
    \A k \in CardRows : cardBalance[k] = initBalance[k] - totalCharged[k]

\* C8: with faults, when buy returns, either it returns "Purchase Successful!",
\* the card was debited by the seat's stored price and the seat is taken, or it
\* returns a FAIL outcome and no balance and no flag has changed.
C8_AllOrNothing ==
    \A p \in users : (Exited(p) /\ result[p] # Raised) =>
        \/ /\ result[p] = Success
           /\ HasSeat(p) /\ HasCard(p)
           /\ charged[p] = seatPrice[seat[p]]
           /\ cardBalance = [bal0[p] EXCEPT ![card[p]] = @ - seatPrice[seat[p]]]
           /\ seatTaken[seat[p]] = 1
        \/ /\ result[p] \in FailOutcomes
           /\ cardBalance = bal0[p]
           /\ seatTaken = taken0[p]

\* C9: without faults, whenever two purchasers have both returned "Purchase
\* Successful!" for the same seat, each one's validate debited the seat's
\* price, the seat is taken, and the UPDATE of occupy ran for at least one.
C9_DoubleSale ==
    \A p, q \in users :
        (/\ p # q /\ Exited(p) /\ Exited(q)
         /\ result[p] = Success /\ result[q] = Success
         /\ seat[p] = seat[q])
        => /\ HasSeat(p) /\ HasCard(p) /\ HasCard(q)
           /\ charged[p] = seatPrice[seat[p]]
           /\ charged[q] = seatPrice[seat[p]]
           /\ totalCharged[card[p]] >= charged[p]
           /\ totalCharged[card[q]] >= charged[q]
           /\ seatTaken[seat[p]] = 1
           /\ occupied[p] \/ occupied[q]

\* C9 witness: the seat was sold twice, to two cards that were both debited,
\* and the second occupy wrote nothing.
C9_Witness ==
    \E p, q \in users :
        /\ p # q /\ Exited(p) /\ Exited(q)
        /\ result[p] = Success /\ result[q] = Success
        /\ seat[p] = seat[q] /\ card[p] # card[q]
        /\ cardBalance[card[p]] = initBalance[card[p]] - seatPrice[seat[p]]
        /\ cardBalance[card[q]] = initBalance[card[q]] - seatPrice[seat[q]]
        /\ occupied[p] /\ ~occupied[q]

\* C10: in every successful buy the ticket's price is the amount validate
\* debited in that attempt and its seat number is the attempt's seat id.
C10_TicketHoldsPricePaid ==
    \A p \in users : (Exited(p) /\ result[p] = Success) =>
        /\ issued[p].price = charged[p]
        /\ issued[p].seat_number = seat[p]

====
